---- MODULE Spec2Model ----
(***************************************************************************)
(* Model of the IMTP analysis core: the onset detector, the onset          *)
(* resolver, the peak / RFD extractor and the per-trial analysis function, *)
(* in its two implementations:                                             *)
(*   "safe"   : src/imtp_analyzer.py            (safe_* / analyze_trial_safe)*)
(*   "legacy" : src/imtp_analyzer_streamlit.py  (detect_onset / analyze_trial)*)
(*                                                                         *)
(* Numbers.  Force samples are integers (newtons).  Every real-valued      *)
(* quantity the code computes is kept exactly: a quotient is a record      *)
(* [num, den] with den > 0, a threshold mean + k*std is kept as the triple *)
(* (mean, std^2, k) and compared by squaring, so no rounding is modelled.  *)
(* Indices are 0-based as in the code; At(s, i) reads s[i].                *)
(* Times entered by hand are whole milliseconds (the input widget shows    *)
(* three decimals), so manual_time * sampling_rate = ms * rate / 1000.     *)
(***************************************************************************)
EXTENDS Integers, Sequences, FiniteSets, TLC

VARIABLES impl, time_data, force_data, filter_freq, onset_threshold,
          sampling_rate, baseline_window, manual_onset_time,
          stage, filtered_force, auto_onset, auto_onset_time, onset_index,
          onset_time, extracted, rfd_values, result, detected,
          trial_data, trial_names, trial_results, manual_onset_adjustments,
          selected_trial, time_column, force_column, filtfilt_out,
          round_trip, reported

\* the state of a browser session (st.session_state and the widgets read by
\* the handlers), with two variables that belong to the model alone:
\*   filtfilt_out : what the filter arithmetic yields for each trial and
\*                  each of its columns taken as the force
\*   round_trip   : the record of an analyse / Apply / Reset sequence
session == <<trial_data, trial_names, trial_results, manual_onset_adjustments,
             selected_trial, time_column, force_column, filtfilt_out,
             round_trip, reported>>

vars == <<impl, time_data, force_data, filter_freq, onset_threshold,
          sampling_rate, baseline_window, manual_onset_time,
          stage, filtered_force, auto_onset, auto_onset_time, onset_index,
          onset_time, extracted, rfd_values, result, detected, session>>

----------------------------------------------------------------------------
(* Bounds of the model *)

\* force samples range over 0..MaxForce
MaxForce == 2

\* series lengths of the analysis run over MinSamples-1 .. MinSamples+LenSlack
LenSlack == 1

----------------------------------------------------------------------------
(* Program constants *)

MinSamples == 50
MinBaseline == 10
Lookahead == 5
time_windows == <<50, 100, 150, 200, 250>>

----------------------------------------------------------------------------
(* Arithmetic *)

Min(a, b) == IF a <= b THEN a ELSE b
Max(a, b) == IF a >= b THEN a ELSE b

Rat(n, d) == [num |-> n, den |-> d]
RatEq(a, b) == a.num * b.den = b.num * a.den

\* Python int(n/d) for d > 0: truncation towards zero
PyInt(n, d) == IF n >= 0 THEN n \div d ELSE -((-n) \div d)

\* s[i] with a 0-based index
At(s, i) == s[i + 1]

\* s[a:b] with Python's clipping of the bounds (0 <= a)
Slice(s, a, b) == SubSeq(s, a + 1, Min(b, Len(s)))

RECURSIVE SumSeq(_)
SumSeq(s) == IF s = <<>> THEN 0 ELSE Head(s) + SumSeq(Tail(s))

RECURSIVE SumSq(_)
SumSq(s) == IF s = <<>> THEN 0 ELSE Head(s) * Head(s) + SumSq(Tail(s))

\* np.mean of a non-empty series
Mean(s) == Rat(SumSeq(s), Len(s))

\* np.std squared (population variance) of a non-empty series
Variance(s) == Rat(Len(s) * SumSq(s) - SumSeq(s) * SumSeq(s), Len(s) * Len(s))

----------------------------------------------------------------------------
(* Thresholds: the value mean + std * (k10 / 10), kept symbolically *)

Threshold(mean, std2, k10) == [mean |-> mean, std2 |-> std2, k10 |-> k10]

RECURSIVE GCD(_, _)
GCD(a, b) == IF b = 0 THEN a ELSE GCD(b, a % b)

\* f > thr.mean + sqrt(thr.std2) * thr.k10 / 10, for k10 >= 0: with
\* d = f - mean > 0, compared as 100 * d^2 > k10^2 * std2, the two sides
\* cleared of denominators after cancelling their common factor g
Above(f, thr) ==
    LET d == f * thr.mean.den - thr.mean.num
        g == GCD(thr.std2.den, thr.mean.den * thr.mean.den)
    IN  /\ d > 0
        /\ 100 * d * d * (thr.std2.den \div g)
             > thr.k10 * thr.k10 * thr.std2.num
                 * ((thr.mean.den * thr.mean.den) \div g)

\* all(f > threshold for f in force_data[i:i+n])
AllAbove(force, thr, i, n) ==
    \A j \in i..(Min(i + n, Len(force)) - 1) : Above(At(force, j), thr)

----------------------------------------------------------------------------
(* safe_detect_onset *)

\* the baseline window after clamping
ClampWindow(force, bw) ==
    LET a == Min(bw, Len(force) \div 4)
        b == Max(a, MinBaseline)
    IN  IF b >= Len(force) THEN Len(force) \div 2 ELSE b

\* baseline_std == 0 is replaced by 0.1
SafeStd2(v) == IF v.num = 0 THEN Rat(1, 100) ELSE v

\* mutant: the std is divided by the multiplier instead of multiplied
SafeThresholdDivided(force, bw, k10) ==
    LET baseline_data == Slice(force, 0, bw)
    IN  Threshold(Mean(baseline_data), SafeStd2(Variance(baseline_data)),
                  100 \div k10)

SafeThreshold(force, bw, k10) ==
    LET baseline_data == Slice(force, 0, bw)
    IN  Threshold(Mean(baseline_data), SafeStd2(Variance(baseline_data)), k10)

\* mutant: the lookahead tests four samples instead of five
RECURSIVE SafeScanShort(_, _, _, _)
SafeScanShort(force, thr, i, stop) ==
    IF i >= stop THEN -1
    ELSE IF Above(At(force, i), thr) /\ AllAbove(force, thr, i, Lookahead - 1) THEN i
    ELSE SafeScanShort(force, thr, i + 1, stop)

\* the for loop: first i in range(i, stop) passing both tests, or -1
RECURSIVE SafeScan(_, _, _, _)
SafeScan(force, thr, i, stop) ==
    IF i >= stop THEN -1
    ELSE IF Above(At(force, i), thr) /\ AllAbove(force, thr, i, Lookahead) THEN i
    ELSE SafeScan(force, thr, i + 1, stop)

\* mutant: index 0 when nothing is found
SafeNotFoundZero(bw, thr) ==
    [index |-> 0, baseline_mean |-> thr.mean, threshold |-> thr]

SafeNotFound(bw, thr) ==
    [index |-> bw, baseline_mean |-> thr.mean, threshold |-> thr]

safe_detect_onset(force, baseline_window_arg, k10) ==
    LET bw  == ClampWindow(force, baseline_window_arg)
        thr == SafeThreshold(force, bw, k10)
        i   == SafeScan(force, thr, bw, Len(force) - Lookahead)
    IN  IF i >= 0
        THEN [index |-> i, baseline_mean |-> thr.mean, threshold |-> thr]
        ELSE SafeNotFound(bw, thr)

----------------------------------------------------------------------------
(* detect_onset (legacy) *)

\* mutant: the legacy threshold with the zero-std replacement of the safe one
LegacyThresholdSubstituted(force, bw, k10) ==
    LET baseline_data == Slice(force, 0, bw)
    IN  Threshold(Mean(baseline_data), SafeStd2(Variance(baseline_data)), k10)

\* no clamping of the window, no replacement of a zero std
LegacyThreshold(force, bw, k10) ==
    LET baseline_data == Slice(force, 0, bw)
    IN  Threshold(Mean(baseline_data), Variance(baseline_data), k10)

\* the for loop over range(len(force_data)); 0 when nothing is found
RECURSIVE LegacyScan(_, _, _)
LegacyScan(force, thr, i) ==
    IF i >= Len(force) THEN 0
    ELSE IF /\ Above(At(force, i), thr)
            /\ i + Lookahead < Len(force)
            /\ AllAbove(force, thr, i, Lookahead)
         THEN i
    ELSE LegacyScan(force, thr, i + 1)

detect_onset(force, baseline_window_arg, k10) ==
    LET thr == LegacyThreshold(force, baseline_window_arg, k10)
    IN  [index |-> LegacyScan(force, thr, 0),
         baseline_mean |-> thr.mean, threshold |-> thr]

----------------------------------------------------------------------------
(* Validation and NaN removal (analyze_trial_safe) *)

\* a sample that is not a number
NaN == -1

HasNaN(s) == \E i \in 1..Len(s) : s[i] = NaN

\* the rows of a pair of series in which neither value is NaN
CleanRows(t, f) ==
    {i \in 1..Min(Len(t), Len(f)) : t[i] # NaN /\ f[i] # NaN}

\* mutant: a series of exactly MinSamples samples is rejected too
TooFewSamplesInclusive(t, f) == Len(t) <= MinSamples \/ Len(f) <= MinSamples

\* len(time_data) < 50 or len(force_data) < 50
TooFewSamples(t, f) == Len(t) < MinSamples \/ Len(f) < MinSamples

\* mutant: only a NaN force makes a row invalid
ValidRowForceOnly(t, f, i) == ~(f[i] = NaN)

\* valid_indices: the rows where neither value is NaN
ValidRow(t, f, i) == ~(t[i] = NaN \/ f[i] = NaN)

\* s[valid_indices]: the samples of the valid rows, in order
RECURSIVE KeepValid(_, _, _, _)
KeepValid(s, t, f, i) ==
    IF i > Len(s) THEN <<>>
    ELSE IF ValidRow(t, f, i) THEN <<s[i]>> \o KeepValid(s, t, f, i + 1)
    ELSE KeepValid(s, t, f, i + 1)

----------------------------------------------------------------------------
(* Filter stage.  The Butterworth / filtfilt arithmetic is not modelled:   *)
(* its output `out` is any series of the length of its input, chosen by    *)
(* the action that applies the filter; what is modelled is what the code   *)
(* does around it.                                                         *)

\* samples that are infinite: np.isnan is false of them
PosInf == -2
NegInf == -3

NonFinite == {NaN, PosInf, NegInf}

\* mutant: the normalised cutoff without its cap
CutoffUncapped(ff, sr) == Rat(2 * ff, sr)

\* cutoff = min(filter_freq / nyquist, 0.99) with nyquist = 0.5 * sr, sr > 0
Cutoff(ff, sr) ==
    IF 100 * 2 * ff <= 99 * sr THEN Rat(2 * ff, sr) ELSE Rat(99, 100)

\* safe_apply_filter.  Two of its statements can raise, and the except
\* clause turns both into a copy of the input: the division by a zero
\* nyquist, and filtfilt on at most 15 samples (3 * the five coefficients of
\* an order-4 filter).
safe_apply_filter(force, ff, sr, out) ==
    IF Len(force) < 6 THEN force
    ELSE IF sr = 0 THEN force
    ELSE IF Cutoff(ff, sr).num <= 0 THEN force
    ELSE IF Len(force) <= 15 THEN force
    ELSE IF HasNaN(out) THEN force
    ELSE out

\* apply_filter (legacy) raises when the normalised cutoff
\* filter_freq / (0.5 * sampling_rate) is not inside (0, 1), or on too few samples
LegacyFilterRaises(force, ff, sr) ==
    \/ 2 * ff >= sr
    \/ ff <= 0
    \/ Len(force) <= 15

----------------------------------------------------------------------------
(* Onset resolution *)

\* int(time_seconds * sampling_rate), the time given in milliseconds
time_to_index(ms, sr) == PyInt(ms * sr, 1000)

\* mutant: the lower bound of the range check is missing
ClampIndexNoFloor(i, n) == Min(i, n - 1)

\* max(0, min(onset_index, len(filtered_force) - 1))
ClampIndex(i, n) == Max(0, Min(i, n - 1))

\* mutant: the flag tells whether the onset differs from the automatic one
ManualFlagByValue(manual, idx, auto_idx) == idx # auto_idx

\* mutant: a manual time that gives the automatic index is not flagged
ManualFlagWhenMoved(manual, idx, auto_idx) == manual.given /\ idx # auto_idx

\* manual_onset_time is not None
ManualFlag(manual, idx, auto_idx) == manual.given

----------------------------------------------------------------------------
(* Peak and RFD *)

\* np.argmax: the index of the first occurrence of the largest sample
ArgMax(s) ==
    (CHOOSE i \in 1..Len(s) :
        /\ \A j \in 1..Len(s) : s[j] <= s[i]
        /\ \A j \in 1..(i - 1) : s[j] < s[i]) - 1

MaxOf(s) == At(s, ArgMax(s))

\* mutant: the peak is always searched from the onset on
SafePeakFromOnset(force, onset) ==
    [peak_force |-> MaxOf(Slice(force, onset, Len(force))),
     peak_force_index |-> ArgMax(Slice(force, onset, Len(force))) + onset]

SafePeak(force, onset) ==
    IF onset < Len(force) - 1
    THEN [peak_force |-> MaxOf(Slice(force, onset, Len(force))),
          peak_force_index |-> ArgMax(Slice(force, onset, Len(force))) + onset]
    ELSE [peak_force |-> MaxOf(force), peak_force_index |-> ArgMax(force)]

LegacyPeak(force, onset) ==
    IF onset < Len(force)
    THEN [peak_force |-> MaxOf(Slice(force, onset, Len(force))),
          peak_force_index |-> ArgMax(Slice(force, onset, Len(force))) + onset]
    ELSE [peak_force |-> MaxOf(force), peak_force_index |-> ArgMax(force)]

Windows == {time_windows[i] : i \in 1..Len(time_windows)}

\* int(window * sampling_rate / 1000)
WindowPoints(window, sr) == PyInt(window * sr, 1000)

\* mutant: the change is divided by the window in milliseconds
RfdPerMillisecond(force, onset, points, window) ==
    Rat(At(force, onset + points) - At(force, onset), window)

\* force_change / (window / 1000)
RfdValue(force, onset, points, window) ==
    Rat((At(force, onset + points) - At(force, onset)) * 1000, window)

Absent == [present |-> FALSE, value |-> Rat(0, 1)]
Present(v) == [present |-> TRUE, value |-> v]

\* mutant: a window without enough trailing samples gets no key
RfdOfAvailableWindows(force, onset, sr) ==
    [w \in {x \in Windows : onset + WindowPoints(x, sr) < Len(force)} |->
        Present(RfdValue(force, onset, WindowPoints(w, sr), w))]

safe_calculate_rfd(force, onset, sr) ==
    [w \in Windows |->
        IF onset >= Len(force) THEN Absent
        ELSE IF onset + WindowPoints(w, sr) < Len(force)
             THEN Present(RfdValue(force, onset, WindowPoints(w, sr), w))
             ELSE Absent]

calculate_rfd(force, onset, sr) ==
    [w \in Windows |->
        IF onset + WindowPoints(w, sr) < Len(force)
        THEN Present(RfdValue(force, onset, WindowPoints(w, sr), w))
        ELSE Absent]

----------------------------------------------------------------------------
(* Bounded inputs *)

ForceLevels == 0..MaxForce

\* slider values of the onset threshold multiplier, in tenths (1.0, 3.0, 10.0)
OnsetThresholds == {10, 30, 100}

\* a piecewise constant series of length n: level v[k] up to the k-th cut
Piecewise(n, c, v) ==
    [i \in 1..n |-> IF i <= c[1] THEN v[1]
                    ELSE IF i <= c[2] THEN v[2]
                    ELSE IF i <= c[3] THEN v[3]
                    ELSE v[4]]

\* the places where a series may change level: inside the baseline, around
\* the start of the scan, and around its end
CutPoints(n) ==
    {MinBaseline \div 2, MinBaseline, MinBaseline + 1, n \div 4,
     MinBaseline + 3, n - Lookahead - 1, n - Lookahead}

SeriesOf(n) ==
    { Piecewise(n, c, v) :
        c \in { x \in CutPoints(n) \X CutPoints(n) \X CutPoints(n) :
                  x[1] <= x[2] /\ x[2] <= x[3] },
        v \in ForceLevels \X ForceLevels \X ForceLevels \X ForceLevels }

\* lengths of the series handed to the onset detector on its own: as long
\* as the floor of the window, twice that, and a length the analysis accepts
DetectLens == {MinBaseline, 2 * MinBaseline, MinSamples + LenSlack}

\* requested baseline windows: between the floor and len//4 of the longer
\* series, and one second at 100 Hz (above len//4, below the floor for the
\* shorter series)
DetectWindows == {MinBaseline + 1, 100}

NoOnset == [index |-> -1, baseline_mean |-> Rat(0, 1),
            threshold |-> Threshold(Rat(0, 1), Rat(0, 1), 0)]
NoPeak == [peak_force |-> 0, peak_force_index |-> -1, onset_force |-> 0,
           time_to_peak |-> Rat(0, 1)]
NoTime == Rat(0, 1)
NoManual == [given |-> FALSE, ms |-> 0]
NoRfd == [w \in {} |-> 0]
NoSeries == <<>>
NoResult == [ok |-> FALSE]
NoStore == [k \in {} |-> 0]
NoRoundTrip == [phase |-> "none"]
NoReport == [shown |-> FALSE]

\* no file has been loaded into the session
SessionIdle ==
    /\ trial_data = <<>>
    /\ trial_names = <<>>
    /\ trial_results = <<>>
    /\ manual_onset_adjustments = NoStore
    /\ selected_trial = 0
    /\ time_column = 0
    /\ force_column = 1
    /\ filtfilt_out = <<>>
    /\ round_trip = NoRoundTrip
    /\ reported = NoReport

----------------------------------------------------------------------------
(* The onset detector on its own: one series, one requested window, and   *)
(* the detector applied to it with the multipliers of OnsetThresholds.    *)

InitDetect ==
    /\ impl = "safe"
    /\ \E n \in DetectLens : force_data \in SeriesOf(n)
    /\ baseline_window \in DetectWindows
    /\ detected = <<>>
    /\ time_data = <<>>
    /\ filter_freq = 0
    /\ onset_threshold = 0
    /\ sampling_rate = 0
    /\ manual_onset_time = NoManual
    /\ stage = "detect"
    /\ filtered_force = <<>>
    /\ auto_onset = NoOnset
    /\ auto_onset_time = NoTime
    /\ onset_index = -1
    /\ onset_time = NoTime
    /\ extracted = NoPeak
    /\ rfd_values = NoRfd
    /\ result = NoResult
    /\ SessionIdle

\* safe_detect_onset(force_data, baseline_window, k10), result kept per k10
DetectWith(k10) ==
    /\ k10 \notin DOMAIN detected
    /\ detected' = [m \in DOMAIN detected \cup {k10} |->
                      IF m = k10
                      THEN safe_detect_onset(force_data, baseline_window, k10)
                      ELSE detected[m]]
    /\ UNCHANGED <<impl, time_data, force_data, filter_freq, onset_threshold,
                   sampling_rate, baseline_window, manual_onset_time, stage,
                   filtered_force, auto_onset, auto_onset_time, onset_index,
                   onset_time, extracted, rfd_values, result, session>>

NextDetect == \E k10 \in OnsetThresholds : DetectWith(k10)

SpecDetect == InitDetect /\ [][NextDetect]_vars

----------------------------------------------------------------------------
(* One call of the per-trial analysis, stage by stage.                     *)
(*   safe   : validate, filter, detect, resolve, clamp, extract, package   *)
(*   legacy : filter, detect, resolve, clamp, extract, package             *)
(* A call ends in stage "done" with a result record, in "failed" with the  *)
(* failure value (safe), or in "raised" with an exception that leaves the  *)
(* function (legacy, which has no handler).                                *)

\* sample times, as sample numbers 0 .. n-1
Ticks(n) == [i \in 1..n |-> i - 1]

\* a raw force trace of n samples: rest, then effort
RawForce(n) == [i \in 1..n |-> IF 2 * i <= n THEN 0 ELSE MaxForce]

SetAt(s, i, x) == [s EXCEPT ![i] = x]

AnalysisLens == (MinSamples - 1)..(MinSamples + LenSlack)

\* the trials handed to analyze_trial_safe: clean ones of every length, one
\* with a NaN force and one with a NaN time for the shortest valid and the
\* longest length, and one whose two columns differ in length
SafeTrials ==
    { [time |-> Ticks(n), force |-> RawForce(n)] : n \in AnalysisLens }
    \cup { [time |-> Ticks(n), force |-> SetAt(RawForce(n), 1, NaN)] :
             n \in {MinSamples, MinSamples + LenSlack} }
    \cup { [time |-> SetAt(Ticks(n), n, NaN), force |-> RawForce(n)] :
             n \in {MinSamples, MinSamples + LenSlack} }
    \cup { [time |-> Ticks(MinSamples + 1), force |-> RawForce(MinSamples)] }

\* the trials handed to the legacy analyze_trial (NaN-free)
LegacyTrials ==
    { [time |-> Ticks(n), force |-> RawForce(n)] :
        n \in MinSamples..(MinSamples + LenSlack) }

\* sidebar values: cutoff 10 or 50 Hz, sampling rate 100 or 110 Hz
FilterFreqs == {10, 50}
SamplingRates == {100, 110}
AnalysisThresholds == {10}

\* manual onset times in ms: negative, inside the series (on and between
\* samples), at its end and beyond it
ManualTimesMs == {-15, 9, 95, 200, 495, 600}
ManualInputs == {NoManual} \cup {[given |-> TRUE, ms |-> t] : t \in ManualTimesMs}

\* outputs of the filter arithmetic on n samples: two-step series, and for
\* the safe implementation one with a NaN in it
FilterCuts(n) == {MinBaseline + 3, n \div 2, n - Lookahead}
StableOutputs(n) ==
    { Piecewise(n, <<c[1], c[2], n>>, <<v[1], v[2], v[3], v[3]>>) :
        c \in { x \in FilterCuts(n) \X FilterCuts(n) : x[1] <= x[2] },
        v \in ForceLevels \X ForceLevels \X ForceLevels }
FilterOutputs(which, n) ==
    IF which = "safe"
    THEN StableOutputs(n) \cup {SetAt(RawForce(n), n \div 2, NaN)}
    ELSE StableOutputs(n)

Init ==
    /\ impl \in {"safe", "legacy"}
    /\ \E tr \in (IF impl = "safe" THEN SafeTrials ELSE LegacyTrials) :
          /\ time_data = tr.time
          /\ force_data = tr.force
    /\ filter_freq \in FilterFreqs
    /\ sampling_rate \in SamplingRates
    /\ onset_threshold \in AnalysisThresholds
    /\ baseline_window = sampling_rate
    /\ manual_onset_time \in ManualInputs
    /\ stage = IF impl = "safe" THEN "validate" ELSE "filter"
    /\ filtered_force = NoSeries
    /\ auto_onset = NoOnset
    /\ auto_onset_time = NoTime
    /\ onset_index = -1
    /\ onset_time = NoTime
    /\ extracted = NoPeak
    /\ rfd_values = NoRfd
    /\ result = NoResult
    /\ detected = <<>>
    /\ SessionIdle

params == <<impl, filter_freq, onset_threshold, sampling_rate,
            baseline_window, manual_onset_time, detected>>

\* analyze_trial_safe: length check, NaN removal, length check
Validate ==
    /\ stage = "validate"
    /\ IF \/ TooFewSamples(time_data, force_data)
          \/ Len(time_data) # Len(force_data)
          \/ Len(KeepValid(time_data, time_data, force_data, 1)) < MinSamples
       THEN /\ stage' = "failed"
            /\ UNCHANGED <<time_data, force_data>>
       ELSE /\ stage' = "filter"
            /\ time_data' = KeepValid(time_data, time_data, force_data, 1)
            /\ force_data' = KeepValid(force_data, time_data, force_data, 1)
    /\ UNCHANGED <<params, session, filtered_force, auto_onset, auto_onset_time,
                   onset_index, onset_time, extracted, rfd_values, result>>

\* safe_apply_filter / apply_filter
Filter ==
    /\ stage = "filter"
    /\ \E out \in FilterOutputs(impl, Len(force_data)) :
          IF impl = "safe"
          THEN /\ filtered_force' =
                     safe_apply_filter(force_data, filter_freq, sampling_rate, out)
               /\ stage' = "detect"
          ELSE IF LegacyFilterRaises(force_data, filter_freq, sampling_rate)
               THEN /\ stage' = "raised"
                    /\ UNCHANGED filtered_force
               ELSE /\ filtered_force' = out
                    /\ stage' = "detect"
    /\ UNCHANGED <<params, session, time_data, force_data, auto_onset, auto_onset_time,
                   onset_index, onset_time, extracted, rfd_values, result>>

\* safe_detect_onset / detect_onset, and auto_onset_time
Detect ==
    /\ stage = "detect"
    /\ auto_onset' =
          IF impl = "safe"
          THEN safe_detect_onset(filtered_force, baseline_window, onset_threshold)
          ELSE detect_onset(filtered_force, baseline_window, onset_threshold)
    /\ auto_onset_time' = Rat(auto_onset'.index, sampling_rate)
    /\ stage' = "resolve"
    /\ UNCHANGED <<params, session, time_data, force_data, filtered_force,
                   onset_index, onset_time, extracted, rfd_values, result>>

\* the manual onset replaces the automatic one when it is given
Resolve ==
    /\ stage = "resolve"
    /\ IF manual_onset_time.given
       THEN /\ onset_index' = time_to_index(manual_onset_time.ms, sampling_rate)
            /\ onset_time' = Rat(manual_onset_time.ms, 1000)
       ELSE /\ onset_index' = auto_onset.index
            /\ onset_time' = auto_onset_time
    /\ stage' = "clamp"
    /\ UNCHANGED <<params, session, time_data, force_data, filtered_force, auto_onset,
                   auto_onset_time, extracted, rfd_values, result>>

\* mutant: the range check hands the call back to the resolver
ClampAndRetry ==
    /\ stage = "clamp"
    /\ onset_index' = ClampIndex(onset_index, Len(filtered_force))
    /\ stage' = "resolve"
    /\ UNCHANGED <<params, session, time_data, force_data, filtered_force, auto_onset,
                   auto_onset_time, onset_time, extracted, rfd_values, result>>

\* mutant: the range check moves the onset time with the index
ClampWithTime ==
    /\ stage = "clamp"
    /\ onset_index' = ClampIndex(onset_index, Len(filtered_force))
    /\ onset_time' = IF onset_index' = onset_index THEN onset_time
                     ELSE Rat(onset_index', sampling_rate)
    /\ stage' = "extract"
    /\ UNCHANGED <<params, session, time_data, force_data, filtered_force, auto_onset,
                   auto_onset_time, extracted, rfd_values, result>>

\* the range check of the index
Clamp ==
    /\ stage = "clamp"
    /\ onset_index' = ClampIndex(onset_index, Len(filtered_force))
    /\ stage' = "extract"
    /\ UNCHANGED <<params, session, time_data, force_data, filtered_force, auto_onset,
                   auto_onset_time, onset_time, extracted, rfd_values, result>>

\* peak, onset force, time to peak and the RFD profile
Extract ==
    /\ stage = "extract"
    /\ LET pk == IF impl = "safe"
                 THEN SafePeak(filtered_force, onset_index)
                 ELSE LegacyPeak(filtered_force, onset_index)
       IN  extracted' =
             [peak_force |-> pk.peak_force,
              peak_force_index |-> pk.peak_force_index,
              onset_force |-> At(filtered_force, onset_index),
              time_to_peak |-> Rat(pk.peak_force_index - onset_index,
                                   sampling_rate)]
    /\ rfd_values' =
          IF impl = "safe"
          THEN safe_calculate_rfd(filtered_force, onset_index, sampling_rate)
          ELSE calculate_rfd(filtered_force, onset_index, sampling_rate)
    /\ stage' = "package"
    /\ UNCHANGED <<params, session, time_data, force_data, filtered_force, auto_onset,
                   auto_onset_time, onset_index, onset_time, result>>

\* mutant: the dictionary reports the effective onset as the automatic one
PackageOnsetAsAutomatic ==
    /\ stage = "package"
    /\ result' =
          [ok |-> TRUE,
           baseline_mean |-> auto_onset.baseline_mean,
           threshold |-> auto_onset.threshold,
           auto_onset_index |-> onset_index,
           auto_onset_time |-> onset_time,
           onset_index |-> onset_index,
           onset_time |-> onset_time,
           onset_force |-> extracted.onset_force,
           peak_force |-> extracted.peak_force,
           peak_force_index |-> extracted.peak_force_index,
           peak_time |-> Rat(extracted.peak_force_index, sampling_rate),
           net_peak_force |->
               Rat(extracted.peak_force * auto_onset.baseline_mean.den
                     - auto_onset.baseline_mean.num,
                   auto_onset.baseline_mean.den),
           time_to_peak |-> extracted.time_to_peak,
           rfd_values |-> rfd_values,
           filtered_force |-> filtered_force,
           time_data |-> time_data,
           manual_adjustment |->
               ManualFlag(manual_onset_time, onset_index, auto_onset.index)]
    /\ stage' = "done"
    /\ UNCHANGED <<params, session, time_data, force_data, filtered_force, auto_onset,
                   auto_onset_time, onset_index, onset_time, extracted,
                   rfd_values>>

\* the returned dictionary
Package ==
    /\ stage = "package"
    /\ result' =
          [ok |-> TRUE,
           baseline_mean |-> auto_onset.baseline_mean,
           threshold |-> auto_onset.threshold,
           auto_onset_index |-> auto_onset.index,
           auto_onset_time |-> auto_onset_time,
           onset_index |-> onset_index,
           onset_time |-> onset_time,
           onset_force |-> extracted.onset_force,
           peak_force |-> extracted.peak_force,
           peak_force_index |-> extracted.peak_force_index,
           peak_time |-> Rat(extracted.peak_force_index, sampling_rate),
           net_peak_force |->
               Rat(extracted.peak_force * auto_onset.baseline_mean.den
                     - auto_onset.baseline_mean.num,
                   auto_onset.baseline_mean.den),
           time_to_peak |-> extracted.time_to_peak,
           rfd_values |-> rfd_values,
           filtered_force |-> filtered_force,
           time_data |-> time_data,
           manual_adjustment |->
               ManualFlag(manual_onset_time, onset_index, auto_onset.index)]
    /\ stage' = "done"
    /\ UNCHANGED <<params, session, time_data, force_data, filtered_force, auto_onset,
                   auto_onset_time, onset_index, onset_time, extracted,
                   rfd_values>>

Next == Validate \/ Filter \/ Detect \/ Resolve \/ Clamp \/ Extract \/ Package

Spec == Init /\ [][Next]_vars

----------------------------------------------------------------------------
(* The filter stage on its own: one series, a cutoff and a sampling rate   *)
(* (zero and negative values included, which the function accepts though   *)
(* the sidebar does not offer them), and safe_apply_filter applied to it.  *)

\* lengths around the two limits of the filter: 6 samples and 15 samples
FilterLens == {5, 6, 15, 16}

\* a series of n samples with one step in the middle
StepSeries(n) ==
    { [i \in 1..n |-> IF 2 * i <= n THEN a ELSE b] :
        a \in ForceLevels, b \in ForceLevels }

\* what the filter arithmetic may yield on n samples: a finite series, or
\* one with a NaN, a +inf or a -inf in it
FiltfiltResults(n) ==
    StepSeries(n)
      \cup { SetAt(RawForce(n), (n \div 2) + 1, x) : x \in NonFinite }

FilterCutoffsHz == {-10, 0, 10, 50, 100}
FilterRates == {0, 100, 110}

InitFilter ==
    /\ impl = "safe"
    /\ \E n \in FilterLens : force_data \in StepSeries(n)
    /\ filter_freq \in FilterCutoffsHz
    /\ sampling_rate \in FilterRates
    /\ stage = "apply_filter"
    /\ filtered_force = NoSeries
    /\ time_data = <<>>
    /\ onset_threshold = 0
    /\ baseline_window = 0
    /\ manual_onset_time = NoManual
    /\ auto_onset = NoOnset
    /\ auto_onset_time = NoTime
    /\ onset_index = -1
    /\ onset_time = NoTime
    /\ extracted = NoPeak
    /\ rfd_values = NoRfd
    /\ result = NoResult
    /\ detected = <<>>
    /\ SessionIdle

\* filtered = safe_apply_filter(force_data, filter_freq, sampling_rate)
ApplyFilter ==
    /\ stage = "apply_filter"
    /\ \E out \in FiltfiltResults(Len(force_data)) :
          filtered_force' =
              safe_apply_filter(force_data, filter_freq, sampling_rate, out)
    /\ stage' = "filtered"
    /\ UNCHANGED <<impl, time_data, force_data, filter_freq, onset_threshold,
                   sampling_rate, baseline_window, manual_onset_time,
                   auto_onset, auto_onset_time, onset_index, onset_time,
                   extracted, rfd_values, result, detected, session>>

NextFilter == ApplyFilter

SpecFilter == InitFilter /\ [][NextFilter]_vars

----------------------------------------------------------------------------
(* The onset resolver on its own, called with the automatic onset time as  *)
(* the manual time: manual_onset_time = auto_onset_index / sampling_rate,  *)
(* a double that need not be a whole number of milliseconds.  The product  *)
(* manual_onset_time * sampling_rate is then a double next to the index,   *)
(* and int() truncates it.                                                 *)

\* the (index, rate) pairs with index < 60 and rate 100 or 110 for which the
\* double (index / rate) * rate is below index
ProductBelowIndex ==
    {<<29, 100>>, <<57, 100>>, <<58, 100>>,
     <<7, 110>>, <<14, 110>>, <<15, 110>>, <<28, 110>>, <<29, 110>>,
     <<30, 110>>, <<31, 110>>, <<56, 110>>, <<58, 110>>}

\* int(manual_onset_time * sampling_rate) for manual_onset_time = i / sr
IndexOfSampleTime(i, sr) ==
    IF <<i, sr>> \in ProductBelowIndex THEN i - 1 ELSE i

\* lengths of the filtered force, and the automatic onsets a detector can
\* return on n samples (a crossing at i needs i + 5 < n)
ResolveLens == MinSamples..(MinSamples + LenSlack)
AutoIndices(n) == 0..(n - Lookahead - 1)

InitResolve ==
    /\ impl \in {"safe", "legacy"}
    /\ sampling_rate \in SamplingRates
    /\ \E n \in ResolveLens :
          /\ filtered_force = RawForce(n)
          /\ \E i \in AutoIndices(n) :
                /\ auto_onset = [NoOnset EXCEPT !.index = i]
                /\ auto_onset_time = Rat(i, sampling_rate)
                /\ manual_onset_time =
                      [given |-> TRUE, seconds |-> Rat(i, sampling_rate)]
    /\ stage = "resolve_auto_time"
    /\ time_data = <<>>
    /\ force_data = <<>>
    /\ filter_freq = 0
    /\ onset_threshold = 0
    /\ baseline_window = 0
    /\ onset_index = -1
    /\ onset_time = NoTime
    /\ extracted = NoPeak
    /\ rfd_values = NoRfd
    /\ result = NoResult
    /\ detected = <<>>
    /\ SessionIdle

\* the manual branch of the resolver, the range check, and the flag of the
\* returned dictionary
ResolveAtAutoTime ==
    /\ stage = "resolve_auto_time"
    /\ manual_onset_time.given
    /\ onset_index' =
          ClampIndex(IndexOfSampleTime(manual_onset_time.seconds.num,
                                       sampling_rate),
                     Len(filtered_force))
    /\ onset_time' = manual_onset_time.seconds
    /\ result' = [ok |-> TRUE,
                  auto_onset_index |-> auto_onset.index,
                  auto_onset_time |-> auto_onset_time,
                  onset_index |-> onset_index',
                  onset_time |-> onset_time',
                  manual_adjustment |->
                      ManualFlag(manual_onset_time, onset_index',
                                 auto_onset.index)]
    /\ stage' = "resolved"
    /\ UNCHANGED <<impl, time_data, force_data, filter_freq, onset_threshold,
                   sampling_rate, baseline_window, manual_onset_time,
                   filtered_force, auto_onset, auto_onset_time, extracted,
                   rfd_values, detected, session>>

NextResolve == ResolveAtAutoTime

SpecResolve == InitResolve /\ [][NextResolve]_vars

----------------------------------------------------------------------------
(* The per-trial analysis as a function of its arguments.  `out` is what   *)
(* the filter arithmetic yields on the force series that reaches it.       *)

\* the outcome of a legacy call that an exception left
Raised == [ok |-> FALSE, exception |-> TRUE]

\* onset resolution, range check, peak, RFD and the returned dictionary
ResultOf(which, td, filtered, auto, manual, sr) ==
    LET raw == IF manual.given THEN time_to_index(manual.ms, sr)
               ELSE auto.index
        idx == ClampIndex(raw, Len(filtered))
        pk  == IF which = "safe" THEN SafePeak(filtered, idx)
               ELSE LegacyPeak(filtered, idx)
    IN  [ok |-> TRUE,
         baseline_mean |-> auto.baseline_mean,
         threshold |-> auto.threshold,
         auto_onset_index |-> auto.index,
         auto_onset_time |-> Rat(auto.index, sr),
         onset_index |-> idx,
         onset_time |-> IF manual.given THEN Rat(manual.ms, 1000)
                        ELSE Rat(auto.index, sr),
         onset_force |-> At(filtered, idx),
         peak_force |-> pk.peak_force,
         peak_force_index |-> pk.peak_force_index,
         peak_time |-> Rat(pk.peak_force_index, sr),
         net_peak_force |->
             Rat(pk.peak_force * auto.baseline_mean.den
                   - auto.baseline_mean.num,
                 auto.baseline_mean.den),
         time_to_peak |-> Rat(pk.peak_force_index - idx, sr),
         rfd_values |-> IF which = "safe"
                        THEN safe_calculate_rfd(filtered, idx, sr)
                        ELSE calculate_rfd(filtered, idx, sr),
         filtered_force |-> filtered,
         time_data |-> td,
         manual_adjustment |-> ManualFlag(manual, idx, auto.index)]

\* F of the value of v: v is evaluated once, as a local variable of the
\* code is
Bind(v, F(_)) == CHOOSE r \in {F(x) : x \in {v}} : TRUE

\* analyze_trial_safe: None when the validation (or the element-wise NaN
\* test on columns of different lengths) raises
analyze_trial_safe(t, f, ff, k10, sr, bw, manual, out) ==
    IF \/ TooFewSamples(t, f)
       \/ Len(t) # Len(f)
       \/ Len(KeepValid(t, t, f, 1)) < MinSamples
    THEN NoResult
    ELSE Bind(KeepValid(t, t, f, 1), LAMBDA td :
         Bind(safe_apply_filter(KeepValid(f, t, f, 1), ff, sr, out),
              LAMBDA filtered :
         Bind(safe_detect_onset(filtered, bw, k10), LAMBDA auto :
              ResultOf("safe", td, filtered, auto, manual, sr))))

\* analyze_trial (legacy): no validation and no handler
analyze_trial(t, f, ff, k10, sr, bw, manual, out) ==
    IF LegacyFilterRaises(f, ff, sr) THEN Raised
    ELSE Bind(detect_onset(out, bw, k10), LAMBDA auto :
              ResultOf("legacy", t, out, auto, manual, sr))

\* the staged call and the function agree: a finished call carries the
\* record the function gives for the same arguments and filter outcome
StagedCallIsTheFunction ==
    stage = "done" =>
        result = IF impl = "safe"
                 THEN analyze_trial_safe(time_data, force_data, filter_freq,
                          onset_threshold, sampling_rate, baseline_window,
                          manual_onset_time, filtered_force)
                 ELSE analyze_trial(time_data, force_data, filter_freq,
                          onset_threshold, sampling_rate, baseline_window,
                          manual_onset_time, filtered_force)

----------------------------------------------------------------------------
(* Peak RFD as the report layer derives it from a result *)

RatLeq(a, b) == a.num * b.den <= b.num * a.den

\* [v for v in rfd_values.values() if v is not None]
PresentValues(rfd) == {rfd[w].value : w \in {x \in DOMAIN rfd : rfd[x].present}}

\* max(values) if values else fallback
PeakRfd(rfd, fallback) ==
    IF PresentValues(rfd) = {} THEN Rat(fallback, 1)
    ELSE CHOOSE v \in PresentValues(rfd) :
             \A u \in PresentValues(rfd) : RatLeq(u, v)

\* the result panel: fallback 0 (safe), default=1 (legacy)
PanelPeakRfd(which, rfd) == PeakRfd(rfd, IF which = "safe" THEN 0 ELSE 1)

\* the CSV of the current trial writes the variable peak_rfd of the panel
CurrentCsvPeakRfd(which, rfd) == PanelPeakRfd(which, rfd)

\* the CSV of all trials: fallback 0 (safe), default=0 (legacy)
AllCsvPeakRfd(which, rfd) == PeakRfd(rfd, 0)

----------------------------------------------------------------------------
(* A browser session: a loaded file, the sidebar settings and the column   *)
(* selection (fixed while the file is loaded), the buttons of the two      *)
(* views, the load of another file and the script execution that follows   *)
(* st.rerun().  In a session `stage` names the handler that ran last.      *)

\* a force trace of n samples with the effort starting after sample c
Effort(n, c, rest) == [i \in 1..n |-> IF i <= c THEN rest ELSE MaxForce]

\* a file of two trials over one time column, n rows: a trial frame has
\* the columns time, force
TwoTrials(n, second) ==
    [names |-> <<"pull_1", "pull_2">>,
     frames |-> << <<Ticks(n), RawForce(n)>>, <<Ticks(n), second>> >>,
     force_at |-> 2]

\* a file of one trial whose force is its first column, the time its second
ForceFirst(n) ==
    [names |-> <<"trial_1">>,
     frames |-> << <<RawForce(n), Ticks(n)>> >>,
     force_at |-> 1]

\* a file of two trials of n rows, the first of which starts with a NaN
\* force and so has n - 1 clean rows
FirstTrialShort(n) ==
    [names |-> <<"pull_1", "pull_2">>,
     frames |-> << <<Ticks(n), SetAt(RawForce(n), 1, NaN)>>,
                   <<Ticks(n), Effort(n, MinBaseline + 3, 0)>> >>,
     force_at |-> 2]

\* the files of a session: two clean trials, one trial with force first,
\* two trials too short for the validation, and (safe) two trials the
\* second of which starts with a NaN force, and two trials the first of
\* which is one clean row short of the validation
SessionFiles(which) ==
    {TwoTrials(MinSamples, Effort(MinSamples, MinBaseline + 3, 0)),
     ForceFirst(MinSamples),
     TwoTrials(MinSamples - 1, Effort(MinSamples - 1, MinBaseline + 3, 0))}
    \cup (IF which = "safe"
          THEN {TwoTrials(MinSamples + LenSlack,
                          SetAt(Effort(MinSamples + LenSlack,
                                       MinBaseline + 3, 0), 1, NaN)),
                FirstTrialShort(MinSamples)}
          ELSE {})

\* the selections of the two column boxes: (time, force) = (first, second),
\* the default, and for a file with the force first also (second, first)
ColumnChoices(file) ==
    IF file.force_at = 1 THEN {<<0, 1>>, <<1, 0>>} ELSE {<<0, 1>>}

\* sidebar values of a session: cutoff 10 Hz at 100 Hz sampling
SessionCutoffs == {10}
SessionRates == {100}

\* onset times entered in the adjustment box, in ms: inside the series and
\* beyond its end
SessionTimesMs == {95, 600}

\* the filter outcome for a force column of n clean rows: one of two
\* traces; for a time column taken as the force: a late step
ForceOutputs(n) ==
    <<Effort(n, n \div 2, 0), Effort(n, MinBaseline + 3, 1)>>
TimeOutput(n) == [i \in 1..n |-> IF i <= n - Lookahead - 1 THEN 0 ELSE 1]

\* the outcomes for the two columns of frame i: either trace for the one
\* trial of a file with the force first, the i-th trace for trial i of a
\* file of two trials
FrameOutputs(file, i) ==
    LET n == Cardinality(CleanRows(file.frames[i][1], file.frames[i][2]))
    IN  IF file.force_at = 1
        THEN { <<ForceOutputs(n)[k], TimeOutput(n)>> : k \in {1, 2} }
        ELSE { <<TimeOutput(n), ForceOutputs(n)[i]>> }

FileOutputs(file) ==
    IF Len(file.frames) = 1
    THEN { <<a>> : a \in FrameOutputs(file, 1) }
    ELSE { <<a, b>> : a \in FrameOutputs(file, 1),
                      b \in FrameOutputs(file, 2) }

InitSession ==
    /\ impl \in {"safe", "legacy"}
    /\ filter_freq \in SessionCutoffs
    /\ sampling_rate \in SessionRates
    /\ onset_threshold \in AnalysisThresholds
    /\ baseline_window = sampling_rate
    /\ \E file \in SessionFiles(impl) :
          /\ trial_data = file.frames
          /\ trial_names = file.names
          /\ trial_results = [i \in 1..Len(file.frames) |-> NoResult]
          /\ filtfilt_out \in FileOutputs(file)
          /\ \E c \in ColumnChoices(file) :
                time_column = c[1] /\ force_column = c[2]
    /\ manual_onset_adjustments = NoStore
    /\ selected_trial = 0
    /\ round_trip = NoRoundTrip
    /\ reported = NoReport
    /\ stage = "loaded"
    /\ time_data = <<>>
    /\ force_data = <<>>
    /\ manual_onset_time = NoManual
    /\ filtered_force = NoSeries
    /\ auto_onset = NoOnset
    /\ auto_onset_time = NoTime
    /\ onset_index = -1
    /\ onset_time = NoTime
    /\ extracted = NoPeak
    /\ rfd_values = NoRfd
    /\ result = NoResult
    /\ detected = <<>>

\* what the handlers of a loaded file never change, and the variables of a
\* single staged call
settings == <<impl, filter_freq, onset_threshold, sampling_rate,
              baseline_window, time_column, force_column, trial_data,
              trial_names, filtfilt_out>>
call == <<time_data, force_data, manual_onset_time, filtered_force,
          auto_onset, auto_onset_time, onset_index, onset_time, extracted,
          rfd_values, result, detected>>

\* trial_key = f"{index}_{name}"
Key(i) == <<i, trial_names[i + 1]>>

\* mutant: the stored adjustment is not read
StoredManualIgnored(store, key) == NoManual

\* manual_onset_adjustments.get(trial_key, None)
StoredManual(store, key) ==
    IF key \in DOMAIN store THEN [given |-> TRUE, ms |-> store[key]]
    ELSE NoManual

\* manual_onset_adjustments[trial_key] = new_onset_value
StoreSet(store, key, ms) ==
    [k \in DOMAIN store \cup {key} |-> IF k = key THEN ms ELSE store[k]]

\* mutant: nothing is deleted
StoreDeleteNothing(store, key) == store

\* del manual_onset_adjustments[trial_key], when the key is there
StoreDelete(store, key) == [k \in DOMAIN store \ {key} |-> store[k]]

\* the analysis function of the implementation called for trial i with the
\* time series t and column c of the trial's frame as the force
AnalyzeColumn(i, t, c, manual) ==
    IF impl = "safe"
    THEN analyze_trial_safe(t, trial_data[i + 1][c + 1], filter_freq,
             onset_threshold, sampling_rate, baseline_window, manual,
             filtfilt_out[i + 1][c + 1])
    ELSE analyze_trial(t, trial_data[i + 1][c + 1], filter_freq,
             onset_threshold, sampling_rate, baseline_window, manual,
             filtfilt_out[i + 1][c + 1])

\* trial_results[i] = result when the call gave a result; None (safe) or
\* an exception (legacy) leaves the stored result as it is
Stored(results, i, r) ==
    IF r.ok THEN [results EXCEPT ![i + 1] = r] ELSE results

\* the button "analyse the current trial": the selected columns of the
\* selected trial, with the stored adjustment of the trial if there is one
AnalyzeCurrent ==
    /\ stage' = "analyze_current"
    /\ reported' = NoReport
    /\ \E i \in {selected_trial} :
       \E r \in {AnalyzeColumn(i, trial_data[i + 1][time_column + 1],
                               force_column,
                               StoredManual(manual_onset_adjustments, Key(i)))} :
           /\ trial_results' = Stored(trial_results, i, r)
           /\ round_trip' =
                 IF r.ok /\ ~r.manual_adjustment
                 THEN [phase |-> "analysed", trial |-> i, original |-> r,
                       applied |-> NoResult]
                 ELSE NoRoundTrip
    /\ UNCHANGED <<settings, call, manual_onset_adjustments, selected_trial>>

\* mutant: every trial is analysed with the entry of the selected trial
AnalyzeAllWithSelectedEntry ==
    /\ Len(trial_data) > 1
    /\ round_trip' = NoRoundTrip
    /\ stage' = "analyze_all"
    /\ reported' = NoReport
    /\ trial_results' =
          [j \in 1..Len(trial_data) |->
              Bind(AnalyzeColumn(j - 1, trial_data[j][1], 1,
                       StoredManual(manual_onset_adjustments,
                                    Key(selected_trial))),
                   LAMBDA r : IF r.ok THEN r ELSE NoResult)]
    /\ UNCHANGED <<settings, call, manual_onset_adjustments, selected_trial>>

\* the button "analyse all trials": the first two columns of every trial
AnalyzeAll ==
    /\ Len(trial_data) > 1
    /\ round_trip' = NoRoundTrip
    /\ stage' = "analyze_all"
    /\ reported' = NoReport
    /\ trial_results' =
          [j \in 1..Len(trial_data) |->
              Bind(AnalyzeColumn(j - 1, trial_data[j][1], 1,
                       StoredManual(manual_onset_adjustments, Key(j - 1))),
                   LAMBDA r : IF r.ok THEN r ELSE NoResult)]
    /\ UNCHANGED <<settings, call, manual_onset_adjustments, selected_trial>>

\* the time series the Apply and Reset handlers analyse: the time_data of
\* the current result (safe), the first column of the trial (legacy)
ReanalysisTime(i) ==
    IF impl = "safe" THEN trial_results[i + 1].time_data
    ELSE trial_data[i + 1][1]

\* the button Apply of the results view, with ms in the adjustment box: the
\* entry is written, then the second column of the trial is analysed
Apply(ms) ==
    /\ trial_results[selected_trial + 1].ok
    /\ stage' = "apply"
    /\ reported' = NoReport
    /\ \E i \in {selected_trial} :
       \E r \in {AnalyzeColumn(i, ReanalysisTime(i), 1,
                               [given |-> TRUE, ms |-> ms])} :
           /\ manual_onset_adjustments' =
                 StoreSet(manual_onset_adjustments, Key(i), ms)
           /\ trial_results' = Stored(trial_results, i, r)
           /\ round_trip' =
                 IF round_trip.phase = "analysed" /\ round_trip.trial = i
                 THEN [round_trip EXCEPT
                         !.phase = "applied",
                         !.applied = Stored(trial_results, i, r)[i + 1]]
                 ELSE NoRoundTrip
    /\ UNCHANGED <<settings, call, selected_trial>>

\* the button Reset of the results view: the entry is deleted, then the
\* second column of the trial is analysed without a manual onset
Reset ==
    /\ trial_results[selected_trial + 1].ok
    /\ stage' = "reset"
    /\ reported' = NoReport
    /\ \E i \in {selected_trial} :
       \E r \in {AnalyzeColumn(i, ReanalysisTime(i), 1, NoManual)} :
           /\ manual_onset_adjustments' =
                 StoreDelete(manual_onset_adjustments, Key(i))
           /\ trial_results' = Stored(trial_results, i, r)
           /\ round_trip' =
                 IF round_trip.phase = "applied" /\ round_trip.trial = i
                 THEN [round_trip EXCEPT !.phase = "reset"]
                 ELSE NoRoundTrip
    /\ UNCHANGED <<settings, call, selected_trial>>

\* the trial box of either view
SelectTrial(j) ==
    /\ j # selected_trial
    /\ selected_trial' = j
    /\ round_trip' = NoRoundTrip
    /\ stage' = "select"
    /\ reported' = NoReport
    /\ UNCHANGED <<settings, call, trial_results, manual_onset_adjustments>>

\* the results view of the selected trial with its two exports: peak RFD
\* on the panel, in the CSV of the current trial, and in the rows of the
\* CSV of all trials (offered for more than one trial)
Render ==
    /\ trial_results[selected_trial + 1].ok
    /\ reported = NoReport
    /\ reported' =
          [shown |-> TRUE,
           panel |-> PanelPeakRfd(impl,
                         trial_results[selected_trial + 1].rfd_values),
           csv_current |-> CurrentCsvPeakRfd(impl,
                         trial_results[selected_trial + 1].rfd_values),
           csv_all |->
               [j \in {x \in 1..Len(trial_results) :
                         Len(trial_data) > 1 /\ trial_results[x].ok} |->
                   AllCsvPeakRfd(impl, trial_results[j].rfd_values)]]
    /\ UNCHANGED <<settings, call, trial_results, manual_onset_adjustments,
                   selected_trial, round_trip, stage>>

\* the file a user loads after the first one: two clean trials
UploadFiles == {TwoTrials(MinSamples, Effort(MinSamples, MinBaseline + 3, 0))}

\* mutant: loading a file empties the adjustment store
UploadClearingStore(file) ==
    /\ file.frames # trial_data
    /\ stage' = "upload"
    /\ reported' = NoReport
    /\ round_trip' = NoRoundTrip
    /\ trial_data' = file.frames
    /\ trial_names' = file.names
    /\ trial_results' = [i \in 1..Len(file.frames) |-> NoResult]
    /\ selected_trial' = 0
    /\ filtfilt_out' \in FileOutputs(file)
    /\ \E c \in ColumnChoices(file) :
          time_column' = c[1] /\ force_column' = c[2]
    /\ manual_onset_adjustments' = NoStore
    /\ UNCHANGED <<impl, filter_freq, onset_threshold, sampling_rate,
                   baseline_window, call>>

\* a script execution after the user has put another file into the upload
\* widget: the upload block stores the trials of the file, one None per
\* trial and selected_trial = 0; it does not touch the adjustment store
Upload(file) ==
    /\ file.frames # trial_data
    /\ stage' = "upload"
    /\ reported' = NoReport
    /\ round_trip' = NoRoundTrip
    /\ trial_data' = file.frames
    /\ trial_names' = file.names
    /\ trial_results' = [i \in 1..Len(file.frames) |-> NoResult]
    /\ selected_trial' = 0
    /\ filtfilt_out' \in FileOutputs(file)
    /\ \E c \in ColumnChoices(file) :
          time_column' = c[1] /\ force_column' = c[2]
    /\ UNCHANGED <<impl, filter_freq, onset_threshold, sampling_rate,
                   baseline_window, call, manual_onset_adjustments>>

\* the upload block read the held file again: the results are None again
\* and the first trial is selected
RereadHeldFile ==
    /\ trial_results' = [i \in 1..Len(trial_data) |-> NoResult]
    /\ selected_trial' = 0
    /\ round_trip' = NoRoundTrip
    /\ reported' = NoReport
    /\ stage' = "rerun"

\* the read of the held file raised: the except branch reports the error
\* and the session state is as it was
HeldFileNotRead ==
    UNCHANGED <<trial_results, selected_trial, round_trip, reported, stage>>

\* the script execution that st.rerun() starts after a handler, with the
\* same file still held by the upload widget: the upload block runs again,
\* as it does at the top of every execution
Rerun ==
    /\ stage \in {"analyze_current", "analyze_all", "apply", "reset", "select"}
    /\ (RereadHeldFile \/ HeldFileNotRead)
    /\ UNCHANGED <<settings, call, manual_onset_adjustments>>

NextSession ==
    \/ AnalyzeCurrent
    \/ AnalyzeAll
    \/ \E ms \in SessionTimesMs : Apply(ms)
    \/ Reset
    \/ \E j \in 0..(Len(trial_data) - 1) : SelectTrial(j)
    \/ Render
    \/ \E file \in UploadFiles : Upload(file)
    \/ Rerun

SpecSession == InitSession /\ [][NextSession]_vars

----------------------------------------------------------------------------
(* Claims about the onset detector (checked under SpecDetect) *)

\* the indices of the scan range at which five consecutive samples,
\* force[i] .. force[i+4], are strictly above thr
QualifyingIn(force, thr, bw) ==
    { i \in bw..(Len(force) - 6) :
        \A j \in i..(i + 4) : Above(At(force, j), thr) }

\* C1: the detector returns the smallest index i with
\* baseline_window <= i <= len(force)-6 whose samples i..i+4 are all
\* strictly above the threshold; an index other than the fallback is always
\* such an index, so a run of fewer than five samples never triggers and no
\* index outside the scan range comes from the scan.
C1_FirstQualifyingIndex ==
    \A k \in DOMAIN detected :
        LET r  == detected[k]
            bw == ClampWindow(force_data, baseline_window)
            Q  == QualifyingIn(force_data, r.threshold, bw)
        IN  /\ Q # {} => (r.index \in Q /\ \A i \in Q : r.index <= i)
            /\ r.index # bw => r.index \in Q

\* a shorter run above the threshold was passed over before the onset
C1_Witness ==
    \E k \in DOMAIN detected :
        LET r  == detected[k]
            bw == ClampWindow(force_data, baseline_window)
        IN  /\ r.index > bw
            /\ \E i \in bw..(r.index - 1) : Above(At(force_data, i), r.threshold)

\* C2: when no index of the scan range has five consecutive samples above
\* the threshold, the detector returns the clamped baseline window as the
\* index, together with the baseline mean and the threshold.
C2_NotFoundFallback ==
    \A k \in DOMAIN detected :
        LET r  == detected[k]
            bw == ClampWindow(force_data, baseline_window)
        IN  /\ r.threshold = SafeThreshold(force_data, bw, k)
            /\ QualifyingIn(force_data, r.threshold, bw) = {} =>
                  /\ r.index = bw
                  /\ r.baseline_mean.num * bw
                       = SumSeq(SubSeq(force_data, 1, bw)) * r.baseline_mean.den

\* the fallback was taken although samples of the scan range were above
C2_Witness ==
    \E k \in DOMAIN detected :
        LET r  == detected[k]
            bw == ClampWindow(force_data, baseline_window)
        IN  /\ QualifyingIn(force_data, r.threshold, bw) = {}
            /\ \E i \in bw..(Len(force_data) - 6) :
                   Above(At(force_data, i), r.threshold)
            /\ r.index = bw

\* C3 as stated: for multipliers k1 <= k2 the index returned with k2 is
\* never below the index returned with k1, fallback included.
C3_MonotoneAsStated ==
    \A k1, k2 \in DOMAIN detected :
        k1 <= k2 => detected[k2].index >= detected[k1].index

\* C3 amended: for k1 <= k2, if the call with k2 finds a qualifying index
\* then its index is not below the index returned with k1; if it ends in
\* the fallback it returns the clamped baseline window, which is not above
\* the index returned with k1.
C3_MonotoneWhenFound ==
    \A k2 \in DOMAIN detected :
        LET bw     == ClampWindow(force_data, baseline_window)
            found2 == QualifyingIn(force_data, detected[k2].threshold, bw) # {}
        IN  \A k1 \in DOMAIN detected :
              k1 <= k2 =>
                IF found2
                THEN detected[k2].index >= detected[k1].index
                ELSE /\ detected[k2].index = bw
                     /\ detected[k2].index <= detected[k1].index

\* the stricter multiplier found a later onset than the laxer one
C3_Witness ==
    \E k1, k2 \in DOMAIN detected :
        LET bw == ClampWindow(force_data, baseline_window)
        IN  /\ k1 < k2
            /\ QualifyingIn(force_data, detected[k2].threshold, bw) # {}
            /\ detected[k2].index > detected[k1].index

\* the number of samples the baseline statistics were taken over
WindowUsed(r) == r.baseline_mean.den

\* max(10, min(requested, len // 4))
StatedClamp(n, requested) == Max(MinBaseline, Min(requested, n \div 4))

\* the indices i of the whole series, baseline included, with i + 5 < len
\* and force[i] .. force[i+4] strictly above thr
LegacyQualifyingIn(force, thr) ==
    { i \in 0..(Len(force) - Lookahead - 1) :
        \A j \in i..(i + Lookahead - 1) : Above(At(force, j), thr) }

\* the two detectors on the series and window of the state
BothDetectors(k) ==
    [safe |-> detected[k],
     legacy |-> detect_onset(force_data, baseline_window, k),
     bw |-> ClampWindow(force_data, baseline_window)]

\* C23: on the same input the legacy detect_onset takes its threshold from
\* the unclamped window with no replacement of a zero std and scans from
\* index 0, returning the first qualifying index of the whole series or 0
\* when there is none, while safe_detect_onset returns the clamped window
\* when none of its scan range qualifies; when neither finds a crossing the
\* two indices differ.
C23_DetectorsDiverge ==
    \A k \in DOMAIN detected :
        LET d  == BothDetectors(k)
            base == Slice(force_data, 0, baseline_window)
            QS == QualifyingIn(force_data, d.safe.threshold, d.bw)
            QL == LegacyQualifyingIn(force_data, d.legacy.threshold)
        IN  /\ d.legacy.threshold = Threshold(Mean(base), Variance(base), k)
            /\ QS = {} => d.safe.index = d.bw
            /\ QL = {} => d.legacy.index = 0
            /\ QL # {} => (d.legacy.index \in QL
                             /\ \A i \in QL : d.legacy.index <= i)
            /\ (QS = {} /\ QL = {}) => d.safe.index # d.legacy.index

\* one series on which, for one multiplier, both detectors find a crossing
\* and return different indices and, for another, neither finds one
C23_Witness ==
    /\ \E k \in DOMAIN detected :
          LET d == BothDetectors(k)
          IN  /\ QualifyingIn(force_data, d.safe.threshold, d.bw) # {}
              /\ LegacyQualifyingIn(force_data, d.legacy.threshold) # {}
              /\ d.safe.index # d.legacy.index
    /\ \E k \in DOMAIN detected :
          LET d == BothDetectors(k)
          IN  /\ QualifyingIn(force_data, d.safe.threshold, d.bw) = {}
              /\ LegacyQualifyingIn(force_data, d.legacy.threshold) = {}
              /\ d.safe.index = d.bw
              /\ d.legacy.index = 0

\* C15 as stated: the baseline window used is
\* max(10, min(requested, len//4)), replaced by len//2 only when that value
\* is strictly greater than len; for a series of at least 50 samples it
\* lies in 10 .. len//4.
C15_WindowAsStated ==
    \A k \in DOMAIN detected :
        LET n == Len(force_data)
            b == StatedClamp(n, baseline_window)
        IN  /\ WindowUsed(detected[k]) = IF b > n THEN n \div 2 ELSE b
            /\ n >= MinSamples =>
                  /\ MinBaseline <= WindowUsed(detected[k])
                  /\ WindowUsed(detected[k]) <= n \div 4

\* what the code does in place of C15: the clamped value is replaced by
\* len//2 when it is greater than or equal to len
C15_WindowReplacedFromEqual ==
    \A k \in DOMAIN detected :
        LET n == Len(force_data)
            b == StatedClamp(n, baseline_window)
        IN  /\ WindowUsed(detected[k]) = IF b >= n THEN n \div 2 ELSE b
            /\ n >= MinSamples =>
                  /\ MinBaseline <= WindowUsed(detected[k])
                  /\ WindowUsed(detected[k]) <= n \div 4

----------------------------------------------------------------------------
(* Claims about the filter stage (checked under SpecFilter) *)

\* C17 as stated: a filter output with any non-finite value (NaN, +inf or
\* -inf) is discarded for a copy of the input, so a series with a
\* non-finite sample never leaves the filter stage unless it is the input.
C17_NonFiniteDiscarded ==
    stage = "filtered" =>
        ((\E i \in 1..Len(filtered_force) : filtered_force[i] \in NonFinite)
            => filtered_force = force_data)

\* what the code does in place of C17: an output with a NaN is discarded
C17_NaNDiscarded ==
    stage = "filtered" =>
        ((\E i \in 1..Len(filtered_force) : filtered_force[i] = NaN)
            => filtered_force = force_data)

\* C18: when the filter is not applied (fewer than 6 samples, a normalised
\* cutoff <= 0, or an exception: a zero sampling rate, at most 15 samples)
\* the stage returns a series of the length of its input and equal to it
\* sample by sample, and it never ends in an exception; the normalised
\* cutoff is the smaller of cutoff_hz / (0.5 * sampling_rate) and 0.99, so
\* it is below 1.
C18_SkippedFilterReturnsInput ==
    /\ stage \in {"apply_filter", "filtered"}
    /\ stage = "filtered" =>
          LET n == Len(force_data)
              skipped == \/ n < 6
                         \/ sampling_rate = 0
                         \/ (sampling_rate > 0 /\ filter_freq <= 0)
                         \/ n <= 15
          IN  skipped =>
                /\ Len(filtered_force) = n
                /\ \A i \in 1..n : filtered_force[i] = force_data[i]
    /\ sampling_rate > 0 =>
          LET c == Cutoff(filter_freq, sampling_rate)
          IN  /\ c.num < c.den
              /\ 100 * c.num <= 99 * c.den
              /\ c.num * sampling_rate <= 2 * filter_freq * c.den
              /\ \/ 100 * c.num = 99 * c.den
                 \/ c.num * sampling_rate = 2 * filter_freq * c.den

\* the filter raised on a series of 6 to 15 samples with a usable cutoff,
\* and the input came back
C18_Witness ==
    /\ stage = "filtered"
    /\ Len(force_data) >= 6
    /\ Len(force_data) <= 15
    /\ filter_freq > 0
    /\ sampling_rate > 0
    /\ filtered_force = force_data

----------------------------------------------------------------------------
(* Claims about one analysis call (checked under Spec) *)

\* Python round(n/d) for d > 0: the nearest integer, ties to the even one
PyRound(n, d) ==
    LET q == n \div d
        r == n % d
    IN  IF 2 * r < d THEN q
        ELSE IF 2 * r > d THEN q + 1
        ELSE IF q % 2 = 0 THEN q ELSE q + 1

\* p is the first position of the largest sample among positions >= from
FirstMaxFrom(force, from, p) ==
    /\ from <= p /\ p <= Len(force) - 1
    /\ \A i \in from..(Len(force) - 1) : At(force, i) <= At(force, p)
    /\ \A i \in from..(p - 1) : At(force, i) < At(force, p)

\* the manual time lies after the time of the last sample
BeyondEnd(ms, sr, n) == ms * sr > 1000 * (n - 1)

\* C4: from the range check on, and in every result, the effective onset
\* index lies in 0 .. len(filtered_force)-1, whether it comes from the
\* detector or from a manual time (negative and beyond the end included).
C4_OnsetIndexInRange ==
    /\ stage \in {"extract", "package", "done"} =>
          /\ 0 <= onset_index
          /\ onset_index <= Len(filtered_force) - 1
    /\ stage = "done" =>
          /\ 0 <= result.onset_index
          /\ result.onset_index <= Len(result.filtered_force) - 1

\* a result whose manual onset time lay beyond the end of the series
C4_Witness ==
    /\ stage = "done"
    /\ manual_onset_time.given
    /\ time_to_index(manual_onset_time.ms, sampling_rate)
          > Len(result.filtered_force) - 1
    /\ result.onset_index = Len(result.filtered_force) - 1

\* C5 as stated: with a manual onset time the index before clamping is
\* round(manual_time * sampling_rate), the nearest sample, the onset time
\* is the manual time, and the result is flagged manual.
C5_ManualIndexIsRounded ==
    /\ (stage = "clamp" /\ manual_onset_time.given) =>
          /\ onset_index
               = PyRound(manual_onset_time.ms * sampling_rate, 1000)
          /\ RatEq(onset_time, Rat(manual_onset_time.ms, 1000))
    /\ (stage = "done" /\ manual_onset_time.given) =>
          /\ RatEq(result.onset_time, Rat(manual_onset_time.ms, 1000))
          /\ result.manual_adjustment

\* what the code does in place of C5: the index before clamping is
\* manual_time * sampling_rate with its fraction dropped (towards zero)
C5_ManualIndexIsTruncated ==
    (stage = "clamp" /\ manual_onset_time.given) =>
        LET x == manual_onset_time.ms * sampling_rate
        IN  IF x >= 0
            THEN 1000 * onset_index <= x /\ x < 1000 * (onset_index + 1)
            ELSE 1000 * (onset_index - 1) < x /\ x <= 1000 * onset_index

\* C6: without a manual onset time the effective index and time are the
\* automatic ones, the automatic time is auto_index / sampling_rate, and
\* the flag is false; the flag is true exactly when a time was supplied.
C6_AutomaticWhenNoManual ==
    stage = "done" =>
        /\ ~manual_onset_time.given =>
              /\ result.onset_index = result.auto_onset_index
              /\ result.onset_time = result.auto_onset_time
              /\ ~result.manual_adjustment
        /\ RatEq(result.auto_onset_time,
                 Rat(result.auto_onset_index, sampling_rate))
        /\ result.manual_adjustment <=> manual_onset_time.given

\* a result flagged manual whose onset index is the automatic one
C6_Witness ==
    /\ stage = "done"
    /\ manual_onset_time.given
    /\ result.onset_index = result.auto_onset_index
    /\ result.manual_adjustment

\* C7 as stated: with onset_index < len-1 the peak index is the first
\* position of the largest sample at or after the onset and the peak force
\* is the sample there; with onset_index >= len-1 the peak is the first
\* position of the largest sample of the whole series.
C7_PeakFromOnsetOrGlobal ==
    stage = "done" =>
        LET f == result.filtered_force
            o == result.onset_index
        IN  /\ result.peak_force = At(f, result.peak_force_index)
            /\ o < Len(f) - 1 => FirstMaxFrom(f, o, result.peak_force_index)
            /\ o >= Len(f) - 1 => FirstMaxFrom(f, 0, result.peak_force_index)

\* C7 restricted to analyze_trial_safe
C7_PeakOfSafe ==
    impl = "safe" => C7_PeakFromOnsetOrGlobal

\* C8 as stated: a manual onset time beyond the end of the series gives a
\* result with onset_index = len-1 whose peak is the largest sample of the
\* whole series, at its first position.
C8_BeyondEndUsesGlobalPeak ==
    (/\ stage = "done"
     /\ manual_onset_time.given
     /\ BeyondEnd(manual_onset_time.ms, sampling_rate,
                  Len(result.filtered_force))) =>
        /\ result.onset_index = Len(result.filtered_force) - 1
        /\ FirstMaxFrom(result.filtered_force, 0, result.peak_force_index)
        /\ result.peak_force
             = At(result.filtered_force, result.peak_force_index)

\* C8 restricted to analyze_trial_safe
C8_BeyondEndOfSafe ==
    impl = "safe" => C8_BeyondEndUsesGlobalPeak

\* C9 as stated: the RFD entry of window W is absent exactly when
\* onset_index + round(W * sampling_rate / 1000) >= len(force).
C9_AbsentByRoundedPoints ==
    stage = "done" =>
        \A w \in Windows :
            ~result.rfd_values[w].present
              <=> result.onset_index + PyRound(w * sampling_rate, 1000)
                    >= Len(result.filtered_force)

\* what the code does in place of C9: the entry is absent exactly when
\* onset_index + (whole samples in W ms) >= len(force)
C9_AbsentByTruncatedPoints ==
    stage = "done" =>
        \A w \in Windows :
            ~result.rfd_values[w].present
              <=> result.onset_index + ((w * sampling_rate) \div 1000)
                    >= Len(result.filtered_force)

\* C10: a present RFD value of window W is
\* (filtered_force[onset_index + points] - filtered_force[onset_index])
\* / (W / 1000), points being the whole number of samples in W ms, and the
\* onset force is the filtered force at the effective onset index.
C10_RfdValue ==
    stage = "done" =>
        LET f == result.filtered_force
            o == result.onset_index
        IN  /\ result.onset_force = At(f, o)
            /\ \A w \in Windows :
                  LET points == (w * sampling_rate) \div 1000
                      v      == result.rfd_values[w]
                  IN  v.present =>
                        v.value.num * w
                          = (At(f, o + points) - result.onset_force)
                              * 1000 * v.value.den

\* a manual onset clamped to the first sample, with a non-zero RFD
C10_Witness ==
    /\ stage = "done"
    /\ manual_onset_time.given
    /\ manual_onset_time.ms < 0
    /\ result.onset_index = 0
    /\ \E w \in Windows :
          /\ result.rfd_values[w].present
          /\ result.rfd_values[w].value.num # 0

\* C11: analyze_trial_safe ends in the failure value, with no result record
\* and no exception, whenever time or force has fewer than 50 samples, the
\* two lengths differ, or fewer than 50 rows are free of NaN; otherwise
\* (exactly 50 valid paired samples included) validation passes and the
\* call goes on to the filter.
C11_InvalidInputFails ==
    [][(impl = "safe" /\ stage = "validate") =>
         LET bad == \/ Len(time_data) < MinSamples
                    \/ Len(force_data) < MinSamples
                    \/ Len(time_data) # Len(force_data)
                    \/ Cardinality(CleanRows(time_data, force_data)) < MinSamples
         IN  /\ bad => (stage' = "failed" /\ result' = NoResult)
             /\ ~bad => stage' = "filter"
             /\ stage' # "raised"]_vars

\* a call that failed although both columns had at least 50 samples of
\* equal number: too few rows were left after the NaN removal
C11_Witness ==
    /\ impl = "safe"
    /\ stage = "failed"
    /\ Len(time_data) >= MinSamples
    /\ Len(force_data) = Len(time_data)
    /\ result = NoResult

\* the number of rows of CleanRows(t, f) up to row i
RankIn(t, f, i) == Cardinality({j \in CleanRows(t, f) : j <= i})

\* C12: the NaN removal keeps exactly the rows in which neither time nor
\* force is NaN, the same rows of both columns and in their order; no later
\* stage changes the two columns, and in every result time_data and
\* filtered_force have the same length, the number of those rows.
C12_CleaningKeepsValidRows ==
    [][impl = "safe" =>
         /\ (stage = "validate" /\ stage' = "filter") =>
               LET V == CleanRows(time_data, force_data)
               IN  /\ Len(time_data') = Cardinality(V)
                   /\ Len(force_data') = Cardinality(V)
                   /\ \A i \in V :
                        LET r == RankIn(time_data, force_data, i)
                        IN  /\ time_data'[r] = time_data[i]
                            /\ force_data'[r] = force_data[i]
         /\ stage # "validate" =>
               (time_data' = time_data /\ force_data' = force_data)
         /\ stage' = "done" =>
               /\ Len(result'.time_data) = Len(time_data')
               /\ Len(result'.filtered_force) = Len(time_data')
               /\ result'.time_data = time_data']_vars

\* a result of a trial whose first row was dropped for its NaN force
C12_Witness ==
    /\ impl = "safe"
    /\ stage = "done"
    /\ Len(result.time_data) >= MinSamples
    /\ Len(result.filtered_force) = Len(result.time_data)
    /\ result.time_data[1] # 0

\* the stages of the specification's state machine, in order, closed by
\* the successful outcome
StageOrder ==
    <<"validate", "filter", "detect", "resolve", "extract", "package", "done">>

\* the stage of the state machine a position of the call belongs to: the
\* range check of the index is the second half of the resolver
StageOf(s) == IF s = "clamp" THEN "resolve" ELSE s

StagePos(s) == CHOOSE i \in 1..Len(StageOrder) : StageOrder[i] = StageOf(s)

\* the fields of the result record
ResultFields ==
    {"ok", "baseline_mean", "threshold", "auto_onset_index",
     "auto_onset_time", "onset_index", "onset_time", "onset_force",
     "peak_force", "peak_force_index", "peak_time", "net_peak_force",
     "time_to_peak", "rfd_values", "filtered_force", "time_data",
     "manual_adjustment"}

\* C13: a call of analyze_trial_safe starts in validate; every step either
\* stays inside the current stage (resolver, then its range check), moves
\* to the next stage of validate, filter, detect, resolve, extract,
\* package, done, or goes to the failure outcome; so no stage is entered
\* twice.  The two outcomes are final and exclusive: done carries a record
\* with every field, every other position (failure included) carries no
\* record at all, and no exception leaves the function.
C13_LinearStages ==
    /\ [](impl = "safe" =>
            /\ stage # "raised"
            /\ stage = "done" => (result.ok /\ DOMAIN result = ResultFields)
            /\ stage # "done" => result = NoResult)
    /\ [][impl = "safe" =>
            /\ stage \notin {"done", "failed"}
            /\ \/ stage' = "failed"
               \/ (stage = "resolve" /\ stage' = "clamp")
               \/ /\ stage' # "clamp"
                  /\ StagePos(stage') = StagePos(stage) + 1]_vars

\* a complete call whose filter stage fell back to the unfiltered series
C13_Witness ==
    /\ impl = "safe"
    /\ stage = "done"
    /\ result.ok
    /\ result.filtered_force = force_data
    /\ DOMAIN result = ResultFields

\* the samples the detector of the implementation takes its baseline over
BaselineOf(which, force, requested) ==
    Slice(force, 0, IF which = "safe" THEN ClampWindow(force, requested)
                    ELSE requested)

IsConstant(s) == \A i, j \in 1..Len(s) : s[i] = s[j]

\* C16 as stated: the threshold is baseline_mean + multiplier * baseline_std
\* over force[0:baseline_window], the std replaced by 0.1 exactly when it
\* is 0 (the baseline is constant); so over a constant baseline the
\* threshold lies strictly above the baseline value, and a sample equal to
\* the baseline is not above the threshold.
C16_ZeroStdReplaced ==
    stage \in {"resolve", "clamp", "extract", "package", "done"} =>
        LET base == BaselineOf(impl, filtered_force, baseline_window)
            thr  == auto_onset.threshold
        IN  /\ RatEq(thr.mean, Rat(SumSeq(base), Len(base)))
            /\ thr.k10 = onset_threshold
            /\ IF IsConstant(base)
               THEN /\ RatEq(thr.std2, Rat(1, 100))
                    /\ thr.k10 * thr.k10 * thr.std2.num > 0
                    /\ ~Above(base[1], thr)
               ELSE /\ thr.std2.num > 0
                    /\ RatEq(thr.std2, Variance(base))

\* C16 restricted to safe_detect_onset
C16_ZeroStdReplacedInSafe ==
    impl = "safe" => C16_ZeroStdReplaced

\* C16 for safe_detect_onset on its own, over baselines that are constant
\* and baselines that are not
C16_ZeroStdReplacedByDetector ==
    \A k \in DOMAIN detected :
        LET base == BaselineOf("safe", force_data, baseline_window)
            thr  == detected[k].threshold
        IN  /\ RatEq(thr.mean, Rat(SumSeq(base), Len(base)))
            /\ thr.k10 = k
            /\ IF IsConstant(base)
               THEN /\ RatEq(thr.std2, Rat(1, 100))
                    /\ ~Above(base[1], thr)
               ELSE /\ thr.std2.num > 0
                    /\ RatEq(thr.std2, Variance(base))

----------------------------------------------------------------------------
(* Claims about a session (checked under SpecSession) *)

\* C14 as stated: after analysing a trial automatically, applying a manual
\* onset and resetting, the stored result of the trial is the original
\* automatic result and the store has no entry for the trial.
C14_RoundTrip ==
    round_trip.phase = "reset" =>
        /\ trial_results[round_trip.trial + 1] = round_trip.original
        /\ Key(round_trip.trial) \notin DOMAIN manual_onset_adjustments

\* C14 for a session whose column boxes are left at (first, second)
C14_RoundTripOfSecondColumn ==
    (time_column = 0 /\ force_column = 1) => C14_RoundTrip

\* every entry of the store other than that of key k is as it was
OthersKept(k) ==
    \A o \in (DOMAIN manual_onset_adjustments
               \cup DOMAIN manual_onset_adjustments') \ {k} :
        /\ o \in DOMAIN manual_onset_adjustments
        /\ o \in DOMAIN manual_onset_adjustments'
        /\ manual_onset_adjustments'[o] = manual_onset_adjustments[o]

\* the result stored for trial j by this step, if the analysis gave one,
\* took the entry of the trial as its manual onset
UsesEntry(j) ==
    (Key(j) \in DOMAIN manual_onset_adjustments /\ trial_results'[j + 1].ok)
    => LET ms == manual_onset_adjustments[Key(j)]
           r  == trial_results'[j + 1]
       IN  /\ r.manual_adjustment
           /\ r.onset_time = Rat(ms, 1000)
           /\ r.onset_index = ClampIndex(PyInt(ms * sampling_rate, 1000),
                                         Len(r.filtered_force))

\* C19: the store holds an entry for a trial key exactly from an Apply on
\* that trial until the next Reset on it: Apply sets the entry of the
\* selected trial to the entered time, Reset deletes it, neither changes
\* another trial's entry, no other handler changes the store, and the
\* buttons "analyse the current trial" and "analyse all trials" leave the
\* entry in place and use its value as the manual onset of the trial.
C19_StoreLifecycle ==
    [][ /\ \A ms \in SessionTimesMs :
              Apply(ms) =>
                  /\ Key(selected_trial) \in DOMAIN manual_onset_adjustments'
                  /\ manual_onset_adjustments'[Key(selected_trial)] = ms
                  /\ OthersKept(Key(selected_trial))
        /\ Reset =>
              /\ Key(selected_trial) \notin DOMAIN manual_onset_adjustments'
              /\ OthersKept(Key(selected_trial))
        /\ (manual_onset_adjustments' # manual_onset_adjustments) =>
              ((\E ms \in SessionTimesMs : Apply(ms)) \/ Reset)
        /\ AnalyzeCurrent =>
              /\ manual_onset_adjustments' = manual_onset_adjustments
              /\ UsesEntry(selected_trial)
        /\ AnalyzeAll =>
              /\ manual_onset_adjustments' = manual_onset_adjustments
              /\ \A j \in 0..(Len(trial_data) - 1) : UsesEntry(j)
      ]_vars

\* "analyse all trials" has run with an entry for the first trial and none
\* for the second: the first result is manual at the stored time beyond the
\* end of the series, the second automatic
C19_Witness ==
    /\ stage = "analyze_all"
    /\ Len(trial_data) > 1
    /\ Key(0) \in DOMAIN manual_onset_adjustments
    /\ Key(1) \notin DOMAIN manual_onset_adjustments
    /\ manual_onset_adjustments[Key(0)] = 600
    /\ trial_results[1].ok /\ trial_results[1].manual_adjustment
    /\ trial_results[1].onset_index = Len(trial_results[1].filtered_force) - 1
    /\ trial_results[2].ok /\ ~trial_results[2].manual_adjustment

\* the RFD values of the result the report was made from
ReportedRfd == trial_results[selected_trial + 1].rfd_values

\* C20: peak RFD is the maximum of the present RFD values, and the value
\* reported as peak RFD, the fallback included, is the same on the result
\* panel, in the CSV of the current trial and in the row of the trial in
\* the CSV of all trials.
C20_PeakRfdConsistent ==
    reported.shown =>
        /\ PresentValues(ReportedRfd) # {} =>
              /\ reported.panel \in PresentValues(ReportedRfd)
              /\ \A u \in PresentValues(ReportedRfd) :
                    RatLeq(u, reported.panel)
        /\ RatEq(reported.csv_current, reported.panel)
        /\ (selected_trial + 1) \in DOMAIN reported.csv_all =>
              RatEq(reported.csv_all[selected_trial + 1], reported.panel)

\* in the safe implementation the three places agree
C20_SafePeakRfdConsistent == (impl = "safe") => C20_PeakRfdConsistent

\* a report of a result without a present RFD value, all three places shown
C20_FallbackReported ==
    /\ reported.shown
    /\ PresentValues(ReportedRfd) = {}
    /\ (selected_trial + 1) \in DOMAIN reported.csv_all

----------------------------------------------------------------------------
(* Further claims about a session (checked under SpecSession) *)

\* the analysis of trial j on its own: a function of the two columns of the
\* trial, the filter outcome for its force column, the sidebar parameters
\* and the entry of the store under the trial's own key
OwnAnalysis(j) ==
    LET frame == trial_data[j + 1]
        m     == StoredManual(manual_onset_adjustments, Key(j))
    IN  IF impl = "safe"
        THEN analyze_trial_safe(frame[1], frame[2], filter_freq,
                 onset_threshold, sampling_rate, baseline_window, m,
                 filtfilt_out[j + 1][2])
        ELSE analyze_trial(frame[1], frame[2], filter_freq,
                 onset_threshold, sampling_rate, baseline_window, m,
                 filtfilt_out[j + 1][2])

\* C21: "analyse all trials" leaves trial_results with one slot per trial;
\* the slot of trial i holds the analysis of trial i's own data with the
\* shared parameters and trial i's own entry of the store, or None when
\* that analysis fails, whatever the other trials are and whether they
\* fail or not.
C21_BatchSlotsIndependent ==
    [][ AnalyzeAll =>
          /\ Len(trial_results') = Len(trial_data)
          /\ \A j \in 0..(Len(trial_data) - 1) :
                \E r \in {OwnAnalysis(j)} :
                    trial_results'[j + 1] = IF r.ok THEN r ELSE NoResult
      ]_vars

\* a batch in which the first trial failed and the second, which has an
\* entry in the store, was analysed with it
C21_Witness ==
    /\ stage = "analyze_all"
    /\ ~trial_results[1].ok
    /\ trial_results[2].ok
    /\ trial_results[2].manual_adjustment
    /\ Key(0) \notin DOMAIN manual_onset_adjustments

\* the result stored for trial j by this step, if the analysis gave one, is
\* an automatic one when the store has no entry under the key of the trial
AutomaticWithoutEntry(j) ==
    (Key(j) \notin DOMAIN manual_onset_adjustments /\ trial_results'[j + 1].ok)
    => ~trial_results'[j + 1].manual_adjustment

\* C29: loading a new file sets trial_results to one None per trial of the
\* file and selected_trial to 0 and leaves manual_onset_adjustments as it
\* is; the first analysis after the load takes an entry of the store whose
\* key is the index and name of the analysed trial as the manual onset, and
\* analyses a trial without such an entry automatically.
C29_UploadKeepsStore ==
    [][ /\ \A file \in UploadFiles :
              Upload(file) =>
                  /\ trial_results' = [i \in 1..Len(file.frames) |-> NoResult]
                  /\ selected_trial' = 0
                  /\ manual_onset_adjustments' = manual_onset_adjustments
        /\ (stage = "upload" /\ AnalyzeCurrent) =>
              /\ UsesEntry(selected_trial)
              /\ AutomaticWithoutEntry(selected_trial)
        /\ (stage = "upload" /\ AnalyzeAll) =>
              \A j \in 0..(Len(trial_data) - 1) :
                  UsesEntry(j) /\ AutomaticWithoutEntry(j)
      ]_vars

\* a file has just been loaded while the store holds an entry made for the
\* second trial of the previous file, under the index and name of the
\* second trial of the new file
C29_Witness ==
    /\ stage = "upload"
    /\ Key(1) \in DOMAIN manual_onset_adjustments
    /\ \A i \in 1..Len(trial_results) : ~trial_results[i].ok
    /\ selected_trial = 0

\* a first trial has been analysed while the store holds only the entry of
\* a trial of the previous file whose name is not a name of the new file
C29_OtherNameCase ==
    /\ stage \in {"analyze_current", "analyze_all"}
    /\ DOMAIN manual_onset_adjustments = {<<0, "trial_1">>}
    /\ trial_names # <<"trial_1">>
    /\ trial_results[1].ok

\* such an entry stays in the store and the first trial of the new file is
\* analysed automatically
C29_OtherNameNotUsed ==
    C29_OtherNameCase => ~trial_results[1].manual_adjustment

\* the re-analysis an Apply of ms on the selected trial runs
ApplyAnalysis(ms) ==
    AnalyzeColumn(selected_trial, ReanalysisTime(selected_trial), 1,
                  [given |-> TRUE, ms |-> ms])

\* C24 as stated: an Apply whose re-analysis fails (returns None or raises)
\* leaves the session as it was before the Apply: the adjustment store and
\* the stored results are unchanged.
C24_FailedApplyLeavesSession ==
    [][ \A ms \in SessionTimesMs :
          (Apply(ms) /\ ~ApplyAnalysis(ms).ok)
          => /\ manual_onset_adjustments' = manual_onset_adjustments
             /\ trial_results' = trial_results
      ]_vars

\* the consequence C24 draws: a trial with a stored result has an entry in
\* the store exactly when the result is flagged as manually adjusted
C24_EntryAgreesWithFlag ==
    \A j \in 0..(Len(trial_results) - 1) :
        trial_results[j + 1].ok =>
            (Key(j) \in DOMAIN manual_onset_adjustments
               <=> trial_results[j + 1].manual_adjustment)

\* a failed Apply leaves the stored result of every trial as it was
C24_FailedApplyKeepsResults ==
    [][ \A ms \in SessionTimesMs :
          (Apply(ms) /\ ~ApplyAnalysis(ms).ok)
          => trial_results' = trial_results
      ]_vars

\* C25 as stated: when "analyse the current trial" has stored a result, the
\* script execution that st.rerun() starts, with the same file still held
\* by the upload widget, leaves that result in trial_results[selected_trial]
\* and leaves selected_trial as it is, so the results view has a result to
\* show.
C25_ResultSurvivesRerun ==
    [][ (stage = "analyze_current" /\ trial_results[selected_trial + 1].ok
           /\ Rerun)
        => /\ selected_trial' = selected_trial
           /\ trial_results'[selected_trial' + 1]
                = trial_results[selected_trial + 1]
           /\ trial_results'[selected_trial' + 1].ok
      ]_vars

\* C25 for the executions in which the upload block does not get the file
\* read again
C25_ResultSurvivesWithoutReread ==
    [][ (stage = "analyze_current" /\ trial_results[selected_trial + 1].ok
           /\ Rerun /\ ~RereadHeldFile)
        => /\ selected_trial' = selected_trial
           /\ trial_results'[selected_trial' + 1]
                = trial_results[selected_trial + 1]
      ]_vars

----------------------------------------------------------------------------
(* Further claims about one analysis call (checked under Spec) *)

\* the call of the current implementation on the arguments of the staged
\* call, with the manual onset replaced by m and the same filter outcome
SameCallWith(m) ==
    IF impl = "safe"
    THEN analyze_trial_safe(time_data, force_data, filter_freq,
             onset_threshold, sampling_rate, baseline_window, m,
             filtered_force)
    ELSE analyze_trial(time_data, force_data, filter_freq,
             onset_threshold, sampling_rate, baseline_window, m,
             filtered_force)

\* C27: the manual onset time does not reach the automatic part of the
\* result: a call returns the filtered_force, baseline_mean, threshold,
\* auto_onset_index and auto_onset_time of the call without a manual onset
\* on the same arguments (so any two calls that differ only in the manual
\* onset agree on them), and net_peak_force is peak_force minus that
\* baseline_mean.
C27_AutomaticPartIgnoresManual ==
    stage = "done" =>
        \E base \in {SameCallWith(NoManual)} :
            /\ base.ok
            /\ result.filtered_force = base.filtered_force
            /\ result.baseline_mean = base.baseline_mean
            /\ result.threshold = base.threshold
            /\ result.auto_onset_index = base.auto_onset_index
            /\ result.auto_onset_time = base.auto_onset_time
            /\ RatEq(result.net_peak_force,
                     Rat(result.peak_force * base.baseline_mean.den
                           - base.baseline_mean.num,
                         base.baseline_mean.den))

\* a call with a manual onset away from the automatic one, on a series with
\* a baseline above zero
C27_Witness ==
    /\ stage = "done"
    /\ manual_onset_time.given
    /\ result.onset_index # result.auto_onset_index
    /\ result.baseline_mean.num > 0
    /\ result.peak_force > 0

\* C26 as stated: in every successful result of analyze_trial_safe the peak
\* index is not before the onset index, so time_to_peak is never negative.
C26_TimeToPeakNonNegative ==
    (stage = "done" /\ impl = "safe") =>
        /\ result.peak_force_index >= result.onset_index
        /\ result.time_to_peak.num >= 0

\* C26, amended: the peak index is not before the onset index when the onset
\* is before the last sample; with the onset on the last sample the peak is
\* the first maximum of the whole series, which is not after the onset, and
\* time_to_peak = (peak_force_index - onset_index) / sampling_rate is then
\* zero or negative.
C26_TimeToPeakSign ==
    (stage = "done" /\ impl = "safe") =>
        /\ result.time_to_peak =
              Rat(result.peak_force_index - result.onset_index, sampling_rate)
        /\ IF result.onset_index < Len(result.filtered_force) - 1
           THEN /\ result.peak_force_index >= result.onset_index
                /\ result.time_to_peak.num >= 0
           ELSE /\ result.peak_force_index = ArgMax(result.filtered_force)
                /\ result.peak_force_index <= result.onset_index
                /\ result.time_to_peak.num <= 0

\* a manual onset on the last sample of a series whose maximum is earlier:
\* time_to_peak is negative
C26_Witness ==
    /\ stage = "done"
    /\ impl = "safe"
    /\ result.manual_adjustment
    /\ result.onset_index = Len(result.filtered_force) - 1
    /\ result.peak_force_index < result.onset_index
    /\ result.time_to_peak.num < 0

\* C28: a manual onset time whose index falls outside 0 .. len-1 has only its
\* index clamped: the result's onset_time is the manual time as entered, so
\* it can be more than one sample period away from onset_index /
\* sampling_rate; in a result without a manual onset, onset_time equals
\* onset_index / sampling_rate.
C28_OnsetTimeUnclamped ==
    stage = "done" =>
        IF manual_onset_time.given
        THEN LET raw == time_to_index(manual_onset_time.ms, sampling_rate)
                 n   == Len(result.filtered_force)
             IN  /\ result.onset_time = Rat(manual_onset_time.ms, 1000)
                 /\ raw < 0 => result.onset_index = 0
                 /\ raw > n - 1 => result.onset_index = n - 1
                 /\ raw \in 0..(n - 1) => result.onset_index = raw
        ELSE RatEq(result.onset_time,
                   Rat(result.onset_index, sampling_rate))

\* a manual time beyond the end: the index is the last one, and the onset
\* time is more than one sample period after onset_index / sampling_rate
C28_Witness ==
    /\ stage = "done"
    /\ manual_onset_time.given
    /\ result.onset_index = Len(result.filtered_force) - 1
    /\ result.onset_time.num * sampling_rate
         > (result.onset_index + 1) * result.onset_time.den

\* C30: every RFD profile of the safe implementation has exactly the five
\* keys 50, 100, 150, 200, 250 ms; a window is present exactly when the
\* series has a sample at onset + points, so presence is downward-closed:
\* with a window present every smaller one is present, with a window absent
\* every larger one is absent.
C30_RfdProfileShape ==
    (stage \in {"package", "done"} /\ impl = "safe") =>
        /\ DOMAIN rfd_values = {50, 100, 150, 200, 250}
        /\ Cardinality(DOMAIN rfd_values) = 5
        /\ \A w \in DOMAIN rfd_values :
              rfd_values[w].present <=>
                  (onset_index + WindowPoints(w, sampling_rate)
                     < Len(filtered_force))
        /\ \A w1, w2 \in DOMAIN rfd_values :
              (w1 < w2 /\ rfd_values[w2].present) => rfd_values[w1].present
        /\ \A w1, w2 \in DOMAIN rfd_values :
              (w1 < w2 /\ ~rfd_values[w1].present) => ~rfd_values[w2].present
        /\ stage = "done" => result.rfd_values = rfd_values

\* a returned profile with the shortest window present and the longest absent
C30_Witness ==
    /\ stage = "done"
    /\ impl = "safe"
    /\ result.rfd_values[50].present
    /\ ~result.rfd_values[250].present

----------------------------------------------------------------------------
(* Claims about the onset resolver (checked under SpecResolve) *)

\* C22: resolving with the automatic onset time as the manual time gives an
\* onset index within one sample of the automatic index (the same index
\* under exact arithmetic), and the result is flagged manual although the
\* value is the automatic one.
C22_ManualAtAutoTime ==
    stage = "resolved" =>
        /\ result.onset_index \in
              {auto_onset.index - 1, auto_onset.index, auto_onset.index + 1}
        /\ ClampIndex(PyInt(auto_onset_time.num * sampling_rate,
                            auto_onset_time.den),
                      Len(filtered_force)) = auto_onset.index
        /\ result.manual_adjustment
        /\ result.onset_time = auto_onset_time

\* the product of the automatic time and the rate is a double below the
\* index: the manual index is one sample before the automatic one
C22_Witness ==
    /\ stage = "resolved"
    /\ result.onset_index = auto_onset.index - 1
    /\ result.manual_adjustment

\* a manual index equal to the automatic one, flagged manual
C22_SameIndexFlagged ==
    /\ stage = "resolved"
    /\ result.onset_index = auto_onset.index
    /\ result.manual_adjustment

====
